---- MODULE Spec2Model ----
(***************************************************************************)
(* A model of the console slog handler (src/handler.go).                   *)
(*                                                                         *)
(* Text is a sequence of one-character strings.  Go slices are modelled as *)
(* slice headers [arr, len, cap] over backing arrays kept in heaps, so     *)
(* that sharing between a Handler and the Handlers derived from it is      *)
(* visible: h.groups (strings), h.context (bytes) and h.headers (attrs).   *)
(* The encoder and the buffer (encoding.go, buffer.go) are not part of the *)
(* sources at hand; their operators are written from the specification    *)
(* and from what handler_test.go expects of them.                          *)
(***************************************************************************)
EXTENDS Integers, Sequences, FiniteSets, TLC

VARIABLES
    config,     \* the HandlerOptions given to NewHandler
    handlers,   \* the Handlers constructed so far; handlers[1] is NewHandler's
    grpHeap,    \* backing arrays of the groups slices ([]string)
    ctxHeap,    \* backing arrays of the context buffers ([]byte)
    hdrHeap,    \* backing arrays of the headers slices ([]slog.Attr)
    op,         \* the operation that has just run, "idle" once it has returned
    opH,        \* the Handler it was called on
    opRec,      \* the record given to Handle (NoRec otherwise)
    opAttrs,    \* the caller's attrs slice after WithAttrs returned
    writes,     \* the Write calls the sink received during the last Handle
    sinkRes,    \* what the sink's Write returned during the last Handle
    err,        \* what the last Handle returned
    parts,      \* the header, middle and trailer buffers the last Handle wrote
    hookLog,    \* the ReplaceAttr calls of the last operation: [key, groups]
    enabledRes, \* what the last Enabled returned
    pool,       \* the number of encoders the encoder pool holds
    durIn,      \* the span given to the duration formatter
    durOut      \* the text the duration formatter appended, <<>> before it ran

vars ==
    <<config, handlers, grpHeap, ctxHeap, hdrHeap, op, opH, opRec, opAttrs, writes,
      sinkRes, err, parts, hookLog, enabledRes, pool, durIn, durOut>>

----------------------------------------------------------------------------
(* Bounds *)

\* the number of Handlers (the base one included) a run constructs
MaxHandlers == 3

\* the number of Handlers of a run of the deep specification
DeepHandlers == 6

\* the number of Handlers of a run of the levels specification
LevelHandlers == 2

\* the number of Handlers of a run of the siblings specification
SiblingHandlers == 4

\* how far below Debug and above Error the levels of the levels specification go
LevelSpan == 12

----------------------------------------------------------------------------
(* Text *)

NL == "\n"

Max(a, b) ==
    IF a >= b THEN a ELSE b

RECURSIVE Concat(_)
\* the concatenation of a sequence of texts
Concat(ts) ==
    IF ts = <<>> THEN <<>> ELSE Head(ts) \o Concat(Tail(ts))

\* bytes.IndexByte(t, c) >= 0
HasByte(t, c) ==
    \E i \in 1..Len(t) : t[i] = c

IsSpace(c) ==
    c \in {" ", "\t", NL}

RECURSIVE TrimLeft(_)
TrimLeft(t) ==
    IF t # <<>> /\ IsSpace(Head(t)) THEN TrimLeft(Tail(t)) ELSE t

RECURSIVE TrimRight(_)
TrimRight(t) ==
    IF t # <<>> /\ IsSpace(t[Len(t)]) THEN TrimRight(SubSeq(t, 1, Len(t) - 1)) ELSE t

\* strings.TrimSpace
TrimSpace(t) ==
    TrimRight(TrimLeft(t))

Digits == <<"0", "1", "2", "3", "4", "5", "6", "7", "8", "9">>

RECURSIVE Itoa(_)
\* the decimal text of a natural number
Itoa(n) ==
    IF n < 10 THEN <<Digits[n + 1]>> ELSE Itoa(n \div 10) \o <<Digits[(n % 10) + 1]>>

----------------------------------------------------------------------------
(* Slices *)

\* a nil slice
NilSlice == [arr |-> 0, len |-> 0, cap |-> 0]

\* s[0:len] read through the heap
Elems(heap, s) ==
    IF s.len = 0 THEN <<>> ELSE SubSeq(heap[s.arr], 1, s.len)

\* the capacity append gives a []string that has to grow by one element
\* (the runtime's growslice; 16-byte elements, so 1, 2, 4, 8, ... are size classes)
GrowCap(oldCap, need) ==
    IF need > 2 * oldCap THEN need ELSE 2 * oldCap

\* malloc size classes for byte arrays
SizeClass(n) ==
    IF n <= 32 THEN 8 * ((n + 7) \div 8) ELSE 16 * ((n + 15) \div 16)

\* the capacity append gives a []byte that has to grow to `need` bytes
GrowCapBytes(oldCap, need) ==
    SizeClass(Max(need, 2 * oldCap))

\* append(s, xs...): in place when the capacity allows, else into a new array.
\* `fill` pads the unused part of a new array, newCap is its capacity.
\* Result: the heap and the new slice header.
AppendTo(heap, s, xs, newCap, fill) ==
    IF xs = <<>> THEN [heap |-> heap, s |-> s]
    ELSE IF s.len + Len(xs) <= s.cap
    THEN [heap |-> [heap EXCEPT ![s.arr] =
                        [i \in 1..Len(@) |->
                            IF i > s.len /\ i <= s.len + Len(xs)
                            THEN xs[i - s.len] ELSE @[i]]],
          s |-> [s EXCEPT !.len = s.len + Len(xs)]]
    ELSE [heap |-> Append(heap,
                        [i \in 1..newCap |->
                            IF i <= s.len THEN heap[s.arr][i]
                            ELSE IF i <= s.len + Len(xs) THEN xs[i - s.len]
                            ELSE fill]),
          s |-> [arr |-> Len(heap) + 1, len |-> s.len + Len(xs), cap |-> newCap]]

\* append(h.groups, name)
AppendGroup(heap, s, name) ==
    AppendTo(heap, s, <<name>>, GrowCap(s.cap, s.len + 1), <<>>)

\* buffer.Append / AppendString / AppendByte: append(*b, bytes...)
AppendBytes(heap, s, bytes) ==
    AppendTo(heap, s, bytes, GrowCapBytes(s.cap, s.len + Len(bytes)), "")

\* buffer.Clip: slices.Clip, s[:len:len]
Clip(s) ==
    [s EXCEPT !.cap = s.len]

----------------------------------------------------------------------------
(* Attributes and records *)

\* the zero slog.Attr: empty key, zero value
EmptyAttr == [Key |-> <<>>, Kind |-> "empty", Str |-> <<>>, Group |-> <<>>]

\* slog.String(k, v)
String(k, v) == [Key |-> k, Kind |-> "str", Str |-> v, Group |-> <<>>]

\* slog.Group(k, attrs...)
Group(k, as) == [Key |-> k, Kind |-> "group", Str |-> <<>>, Group |-> as]

\* slog's keys of the builtin fields
TimeKey == <<"t", "i", "m", "e">>

LevelKey == <<"l", "e", "v", "e", "l">>

MessageKey == <<"m", "s", "g">>

SourceKey == <<"s", "o", "u", "r", "c", "e">>

BuiltinKeys == {TimeKey, LevelKey, MessageKey, SourceKey}

\* slog's named levels
LevelDebug == -4

LevelInfo == 0

LevelWarn == 4

LevelError == 8

\* slog.Any(slog.SourceKey, &src): the source attribute Handle adds to the record;
\* its value renders as file:line
SourceAttr == [Key |-> SourceKey, Kind |-> "any", Str |-> <<"f", ":", "7">>, Group |-> <<>>]

\* the layout-formatted text of a non-zero record time
TimeText == <<"T">>

----------------------------------------------------------------------------
(* The encoder *)

\* one ReplaceAttr call: the hook of the model returns its argument and is logged
HookCall(hook, key, groups) ==
    IF hook = "nil" THEN <<>> ELSE <<[key |-> key, groups |-> groups]>>

\* the text of a resolved non-group value
ValueText(a) ==
    IF a.Kind = "empty" THEN <<"<", "n", "i", "l", ">">> ELSE a.Str

\* a band that is the named level nearest to the level
LevelBandNearest(l) ==
    IF l >= LevelError - 1 THEN LevelError
    ELSE IF l >= LevelWarn - 1 THEN LevelWarn
    ELSE IF l >= LevelInfo - 1 THEN LevelInfo
    ELSE LevelDebug

\* the band of a level: the highest named level at or below it, Debug below Debug
LevelBand(l) ==
    IF l >= LevelError THEN LevelError
    ELSE IF l >= LevelWarn THEN LevelWarn
    ELSE IF l >= LevelInfo THEN LevelInfo
    ELSE LevelDebug

BandCode(b) ==
    IF b = LevelError THEN <<"E", "R", "R">>
    ELSE IF b = LevelWarn THEN <<"W", "R", "N">>
    ELSE IF b = LevelInfo THEN <<"I", "N", "F">>
    ELSE <<"D", "B", "G">>

\* the severity abbreviation: band code and signed offset
LevelText(l) ==
    LET d == l - LevelBand(l)
    IN  BandCode(LevelBand(l))
            \o (IF d > 0 THEN <<"+">> \o Itoa(d)
                ELSE IF d < 0 THEN <<"-">> \o Itoa(-d)
                ELSE <<>>)

\* enc.writeTimestamp: nothing for the zero time
writeTimestamp(time, hook) ==
    IF time = 0 THEN [text |-> <<>>, log |-> <<>>]
    ELSE [text |-> TimeText \o <<" ">>, log |-> HookCall(hook, TimeKey, <<>>)]

\* enc.writeLevel
writeLevel(level, hook) ==
    [text |-> LevelText(level), log |-> HookCall(hook, LevelKey, <<>>)]

\* enc.writeHeaderSeparator: the one-character field separator
writeHeaderSeparator == <<" ">>

\* enc.writeMessage
writeMessage(msg, hook) ==
    [text |-> msg, log |-> HookCall(hook, MessageKey, <<>>)]

\* the qualified prefix of the children of a group named key
SubPrefix(group, key) ==
    IF key = <<>> THEN group
    ELSE IF group = <<>> THEN key
    ELSE group \o <<".">> \o key

RECURSIVE writeAttr(_, _, _, _)
RECURSIVE writeAttrs(_, _, _, _)
\* enc.writeAttr(buf, a, group): the bytes appended and the hook calls made.
\* groups is the encoder's Handler's group list as the hook is given it.
writeAttr(a, group, groups, hook) ==
    IF a.Kind = "group"
    THEN IF a.Group = <<>> THEN [text |-> <<>>, log |-> <<>>]
         ELSE writeAttrs(a.Group, SubPrefix(group, a.Key),
                         IF a.Key = <<>> THEN groups ELSE Append(groups, a.Key), hook)
    ELSE IF a.Key = <<>> /\ a.Kind = "empty" THEN [text |-> <<>>, log |-> <<>>]
    ELSE [text |-> <<" ">> \o (IF group = <<>> THEN <<>> ELSE group \o <<".">>)
                     \o a.Key \o <<"=">> \o ValueText(a),
          log |-> HookCall(hook, a.Key, groups)]

\* writeAttr over a list, in order
writeAttrs(as, group, groups, hook) ==
    IF as = <<>> THEN [text |-> <<>>, log |-> <<>>]
    ELSE LET x == writeAttr(Head(as), group, groups, hook)
             r == writeAttrs(Tail(as), group, groups, hook)
         IN  [text |-> x.text \o r.text, log |-> x.log \o r.log]

RECURSIVE Pad(_, _)
\* t truncated or padded with spaces to width n
Pad(t, n) ==
    IF Len(t) >= n THEN SubSeq(t, 1, n) ELSE Pad(Append(t, " "), n)

\* enc.writeHeader: one header slot in its share of the fixed width
writeHeader(a, width, n) ==
    Pad(IF a = EmptyAttr THEN <<>> ELSE ValueText(a), width \div n) \o <<" ">>

RECURSIVE writeHeaders(_)
\* enc.writeHeaders: the bound header slots at their natural width
writeHeaders(hs) ==
    IF hs = <<>> THEN <<>>
    ELSE (IF Head(hs) = EmptyAttr THEN <<>> ELSE ValueText(Head(hs)) \o <<" ">>)
            \o writeHeaders(Tail(hs))

----------------------------------------------------------------------------
(* The duration formatter *)

\* A span is [neg, sec, nsec]: sec whole seconds and nsec < 10^9 nanoseconds,
\* negated when neg; its nanosecond count is beyond the integers of the checker.

\* the micro sign of the unit of microseconds, written as the letter u
Micro == "u"

RECURSIVE PadLeft(_, _)
\* t with zeros before it, to n digits
PadLeft(t, n) ==
    IF Len(t) >= n THEN t ELSE PadLeft(<<"0">> \o t, n)

RECURSIVE TrimZeros(_)
\* t without its trailing zeros
TrimZeros(t) ==
    IF t # <<>> /\ t[Len(t)] = "0" THEN TrimZeros(SubSeq(t, 1, Len(t) - 1)) ELSE t

\* the decimal fraction n / 10^width: nothing when zero, else a point and the
\* digits up to the last one that is not zero
Fraction(n, width) ==
    LET ds == TrimZeros(PadLeft(Itoa(n), width))
    IN  IF ds = <<>> THEN <<>> ELSE <<".">> \o ds

\* a span below one second in the largest unit it fills
SubSecond(nsec) ==
    IF nsec < 1000 THEN Itoa(nsec) \o <<"n", "s">>
    ELSE IF nsec < 1000000
    THEN Itoa(nsec \div 1000) \o Fraction(nsec % 1000, 3) \o <<Micro, "s">>
    ELSE Itoa(nsec \div 1000000) \o Fraction(nsec % 1000000, 6) \o <<"m", "s">>

\* a formatter without the day unit: the hours grow
appendDurationHours(d) ==
    IF d.sec = 0 /\ d.nsec = 0 THEN <<"0", "s">>
    ELSE (IF d.neg THEN <<"-">> ELSE <<>>)
            \o (IF d.sec = 0 THEN SubSecond(d.nsec)
                ELSE (IF d.sec >= 3600 THEN Itoa(d.sec \div 3600) \o <<"h">> ELSE <<>>)
                        \o (IF d.sec >= 60 THEN Itoa((d.sec % 3600) \div 60) \o <<"m">>
                            ELSE <<>>)
                        \o Itoa(d.sec % 60) \o Fraction(d.nsec, 9) \o <<"s">>)

\* appendDuration: the span as days, hours, minutes and seconds with their
\* fraction, from the largest unit that is not zero down to the seconds
appendDuration(d) ==
    IF d.sec = 0 /\ d.nsec = 0 THEN <<"0", "s">>
    ELSE (IF d.neg THEN <<"-">> ELSE <<>>)
            \o (IF d.sec = 0 THEN SubSecond(d.nsec)
                ELSE (IF d.sec >= 86400 THEN Itoa(d.sec \div 86400) \o <<"d">> ELSE <<>>)
                        \o (IF d.sec >= 3600
                            THEN Itoa((d.sec % 86400) \div 3600) \o <<"h">> ELSE <<>>)
                        \o (IF d.sec >= 60 THEN Itoa((d.sec % 3600) \div 60) \o <<"m">>
                            ELSE <<>>)
                        \o Itoa(d.sec % 60) \o Fraction(d.nsec, 9) \o <<"s">>)

----------------------------------------------------------------------------
(* The Handler *)

\* slices.IndexFunc(h.opts.Headers, func(s) { return s == key }); 0 for -1
IndexFunc(keys, key) ==
    IF \E i \in 1..Len(keys) : keys[i] = key
    THEN CHOOSE i \in 1..Len(keys) : keys[i] = key /\ \A j \in 1..(i - 1) : keys[j] # key
    ELSE 0

\* NewHandler: the defaults (a Leveler is <<level>>, a nil one <<>>), and the Handler over a fresh headers array hdr
NewHandler(o, hdr) ==
    [opts        |-> [o EXCEPT !.Level = IF o.Level = <<>> THEN <<LevelInfo>> ELSE o.Level],
     groupPrefix |-> <<>>,
     groups      |-> NilSlice,
     context     |-> NilSlice,
     headers     |-> [arr |-> hdr, len |-> Len(o.Headers), cap |-> Len(o.Headers)],
     parent      |-> 0,
     chain       |-> <<>>]

\* an Enabled that leaves out the threshold itself
EnabledStrict(h, l) ==
    l > h.opts.Level[1]

\* Handler.Enabled
EnabledResult(h, l) ==
    l >= h.opts.Level[1]

RECURSIVE extractLoop(_, _, _, _)
\* the loop of extractHeaders from attrs[i] on; st = [heap, headers, attrs, changed]
extractLoop(st, h, orig, i) ==
    IF i > Len(orig) THEN st
    ELSE LET idx == IndexFunc(h.opts.Headers, orig[i].Key)
         IN  IF idx = 0 THEN extractLoop(st, h, orig, i + 1)
             ELSE LET fresh == [arr |-> Len(st.heap) + 1, len |-> h.headers.len,
                                cap |-> h.headers.len]
                      heap1 == IF st.changed THEN st.heap
                               ELSE Append(st.heap, Elems(st.heap, h.headers))
                      hs    == IF st.changed THEN st.headers ELSE fresh
                  IN  extractLoop(
                          [heap    |-> [heap1 EXCEPT ![hs.arr][idx] = orig[i]],
                           headers |-> hs,
                           attrs   |-> [st.attrs EXCEPT ![i] = EmptyAttr],
                           changed |-> TRUE],
                          h, orig, i + 1)

\* an extractHeaders that never copies the slots: it writes into h.headers
extractHeadersInPlace(heap, h, attrs) ==
    extractLoop([heap |-> heap, headers |-> h.headers, attrs |-> attrs,
                 changed |-> TRUE], h, attrs, 1)

\* an extractHeaders that leaves the extracted attributes in the list
extractHeadersKeepAttrs(heap, h, attrs) ==
    [extractLoop([heap |-> heap, headers |-> h.headers, attrs |-> attrs,
                  changed |-> FALSE], h, attrs, 1) EXCEPT !.attrs = attrs]

\* Handler.extractHeaders: the new headers slice, the headers heap and the caller's
\* attrs slice after the call
extractHeaders(heap, h, attrs) ==
    extractLoop([heap |-> heap, headers |-> h.headers, attrs |-> attrs,
                 changed |-> FALSE], h, attrs, 1)

RECURSIVE appendAttrs(_, _, _, _, _)
\* the loop of WithAttrs: enc.writeAttr(&newCtx, a, h.groupPrefix) for each a;
\* st = [heap, s, log]
appendAttrs(st, as, group, groups, hook) ==
    IF as = <<>> THEN st
    ELSE LET w == writeAttr(Head(as), group, groups, hook)
             r == AppendBytes(st.heap, st.s, w.text)
         IN  appendAttrs([heap |-> r.heap, s |-> r.s, log |-> st.log \o w.log],
                         Tail(as), group, groups, hook)

\* a WithAttrs that keeps the spare capacity of the new context
WithAttrsHandlerUnclipped(h, p, attrs, headers, newCtx) ==
    [opts        |-> h.opts,
     groupPrefix |-> h.groupPrefix,
     groups      |-> h.groups,
     context     |-> newCtx,
     headers     |-> headers,
     parent      |-> p,
     chain       |-> Append(h.chain, [op |-> "WithAttrs", attrs |-> attrs])]

\* the Handler WithAttrs returns, given the extracted headers and the new context
WithAttrsHandler(h, p, attrs, headers, newCtx) ==
    [opts        |-> h.opts,
     groupPrefix |-> h.groupPrefix,
     groups      |-> h.groups,
     context     |-> Clip(newCtx),
     headers     |-> headers,
     parent      |-> p,
     chain       |-> Append(h.chain, [op |-> "WithAttrs", attrs |-> attrs])]

\* the group prefix WithGroup computes from the trimmed name
JoinPrefix(prefix, name) ==
    IF prefix # <<>> THEN prefix \o <<".">> \o name ELSE name

\* a WithGroup whose prefix is the new name alone
WithGroupHandlerFlat(h, p, name, groups) ==
    [opts        |-> h.opts,
     groupPrefix |-> TrimSpace(name),
     groups      |-> groups,
     context     |-> h.context,
     headers     |-> h.headers,
     parent      |-> p,
     chain       |-> Append(h.chain, [op |-> "WithGroup", name |-> name])]

\* the Handler WithGroup returns, given the appended groups slice
WithGroupHandler(h, p, name, groups) ==
    [opts        |-> h.opts,
     groupPrefix |-> JoinPrefix(h.groupPrefix, TrimSpace(name)),
     groups      |-> groups,
     context     |-> h.context,
     headers     |-> h.headers,
     parent      |-> p,
     chain       |-> Append(h.chain, [op |-> "WithGroup", name |-> name])]

\* a Handle that stores the record's header value in h.headers itself
setHeaderShared(st, h, idx, a) ==
    [st EXCEPT !.heap = [@ EXCEPT ![h.headers.arr][idx] = a]]

\* Handle, first header match of a record: the slots are copied, then headers[idx] = a
setHeader(st, h, idx, a) ==
    LET base == IF st.local THEN st.headers ELSE Elems(st.heap, h.headers)
    IN  [st EXCEPT !.local = TRUE, !.headers = [base EXCEPT ![idx] = a]]

\* Handle: the attribute just written to middle from offset on moves to the trailer
\* when it holds a line break
relocate(st, offset) ==
    LET lastAttr == SubSeq(st.middle, offset + 1, Len(st.middle))
    IN  IF HasByte(lastAttr, NL)
        THEN [st EXCEPT !.trailer = @ \o lastAttr, !.middle = SubSeq(@, 1, offset)]
        ELSE st

\* a callback that writes the attribute without the Handler's group prefix
handleAttrUnqualified(st, h, a, groups) ==
    LET idx == IndexFunc(h.opts.Headers, a.Key)
    IN  IF idx > 0 THEN setHeader(st, h, idx, a)
        ELSE LET w == writeAttr(a, <<>>, groups, h.opts.ReplaceAttr)
             IN  relocate([st EXCEPT !.middle = @ \o w.text, !.log = @ \o w.log],
                          Len(st.middle))

\* Handle: the callback of rec.Attrs for one attribute
handleAttr(st, h, a, groups) ==
    LET idx == IndexFunc(h.opts.Headers, a.Key)
    IN  IF idx > 0 THEN setHeader(st, h, idx, a)
        ELSE LET w == writeAttr(a, h.groupPrefix, groups, h.opts.ReplaceAttr)
             IN  relocate([st EXCEPT !.middle = @ \o w.text, !.log = @ \o w.log],
                          Len(st.middle))

RECURSIVE attrLoop(_, _, _, _)
\* rec.Attrs(func ...)
attrLoop(st, h, as, groups) ==
    IF as = <<>> THEN st
    ELSE attrLoop(handleAttr(st, h, Head(as), groups), h, Tail(as), groups)

\* a Handle that adds the source attribute whatever the record's PC
recordAttrsAnyPC(h, rec) ==
    IF h.opts.AddSource THEN Append(rec.Attrs, SourceAttr) ELSE rec.Attrs

\* the attributes Handle iterates: the record's, and the source attribute added
\* to the record when AddSource is set and the PC is not zero
recordAttrs(h, rec) ==
    IF h.opts.AddSource /\ rec.PC > 0 THEN Append(rec.Attrs, SourceAttr) ELSE rec.Attrs

\* Handle: the header slots written to the header buffer
headerText(h, headers) ==
    IF h.opts.HeaderWidth > 0
    THEN Concat([i \in 1..Len(headers) |->
                    writeHeader(headers[i], h.opts.HeaderWidth, Len(headers))])
    ELSE IF Len(headers) > 0 THEN writeHeaders(headers)
    ELSE <<>>

\* Handle up to the write: the three buffers, the hook calls and the headers heap
Render(h, rec, groups, ctx, heap) ==
    LET hook == h.opts.ReplaceAttr
        ts   == writeTimestamp(rec.Time, hook)
        lv   == writeLevel(rec.Level, hook)
        ms   == writeMessage(rec.Message, hook)
        st   == attrLoop([middle  |-> lv.text \o writeHeaderSeparator \o ms.text \o ctx,
                          trailer |-> <<>>,
                          headers |-> <<>>,
                          local   |-> FALSE,
                          log     |-> ts.log \o lv.log \o ms.log,
                          heap    |-> heap],
                         h, recordAttrs(h, rec), groups)
        hs   == IF st.local THEN st.headers ELSE Elems(st.heap, h.headers)
    IN  [header  |-> ts.text \o headerText(h, hs),
         middle  |-> IF st.trailer = <<>> THEN Append(st.middle, NL) ELSE st.middle,
         trailer |-> IF st.trailer = <<>> THEN <<>> ELSE Append(st.trailer, NL),
         log     |-> st.log,
         heap    |-> st.heap]

\* buffer.WriteTo(w): the Write calls the sink receives for buffer b
WriteTo(b) ==
    <<b>>

\* a Handle that writes each buffer on its own
HandleWritesSplit(r) ==
    WriteTo(r.header) \o WriteTo(r.middle) \o WriteTo(r.trailer)

\* Handle: middle and trailer are copied to the header buffer, which is written
\* to h.out
HandleWrites(r) ==
    WriteTo(r.header \o r.middle \o r.trailer)

\* newEncoder: an encoder is taken from the pool, a new one made when it is empty;
\* the encoders left in the pool
newEncoder(n) ==
    IF n > 0 THEN n - 1 ELSE 0

\* enc.free: the encoder goes back to the pool
free(n) ==
    n + 1

\* a Handle that frees its encoder before it looks at the error
HandlePoolDeferred(n, sinkErr) ==
    free(n)

\* Handle after the write, the pool holding n encoders: on an error it returns
\* at once, else it frees its encoder
HandlePool(n, sinkErr) ==
    IF sinkErr # "nil" THEN n ELSE free(n)

\* a Handle that drops the sink's error
HandleErrorSwallowed(sinkErr) ==
    "nil"

\* what Handle returns when WriteTo returned sinkErr
HandleError(sinkErr) ==
    sinkErr

----------------------------------------------------------------------------
(* Inputs *)

\* the configured header keys of the runs
HeaderLists == {<<>>, <<<<"l">>>>, <<<<"l">>, <<"i">>>>}

\* the HandlerOptions given to NewHandler (rendering is with NoColor set)
Opts(src, lvl, hook, hdrs, width) ==
    [AddSource |-> src, Level |-> lvl, ReplaceAttr |-> hook, Headers |-> hdrs,
     HeaderWidth |-> width]

OptsSet ==
    {Opts(src, <<>>, hook, hdrs, 0) :
        src \in BOOLEAN, hook \in {"nil", "id"}, hdrs \in HeaderLists}
    \cup {Opts(FALSE, <<LevelWarn>>, "nil", <<>>, 0),
          Opts(TRUE, <<LevelDebug + 1>>, "id", <<<<"l">>, <<"i">>>>, 4)}

\* the names given to WithGroup
GroupNames == {<<"g">>, <<" ", "h">>}

\* the attribute lists given to WithAttrs
BoundLists ==
    {<<String(<<"l">>, <<"v">>), String(<<"a">>, <<"x">>)>>,
     <<String(<<"l">>, <<"w">>), String(<<"i">>, <<"k">>), String(<<"l">>, <<"u">>)>>,
     <<String(<<"c">>, <<"p", NL, "q">>)>>}

\* the records given to Handle
Rec(time, level, msg, pc, attrs) ==
    [Time |-> time, Level |-> level, Message |-> msg, PC |-> pc, Attrs |-> attrs]

NoRec == Rec(0, 0, <<>>, 0, <<>>)

Records ==
    {Rec(1, LevelInfo, <<"m">>, 0, <<>>),
     Rec(0, LevelInfo + 1, <<"m">>, 1, <<String(<<"a">>, <<"x">>)>>),
     Rec(1, LevelWarn, <<"m">>, 0,
         <<String(<<"b">>, <<"y", NL, "z">>), String(<<"a">>, <<"x">>),
           Group(<<"D">>, <<String(<<"d">>, <<NL>>), String(<<"e">>, <<"y">>)>>)>>),
     Rec(1, LevelInfo, <<"m">>, 1,
         <<String(<<"l">>, <<"r">>), String(<<"a">>, <<"x">>)>>),
     Rec(0, LevelDebug - 1, <<"m">>, 0,
         <<Group(<<"G">>, <<String(<<"a">>, <<"x">>), Group(<<>>, <<String(<<"e">>, <<"y">>)>>)>>),
           EmptyAttr, Group(<<"E">>, <<>>),
           Group(<<"N">>, <<Group(<<"M">>, <<>>), Group(<<>>, <<EmptyAttr>>)>>)>>),
     Rec(1, LevelError, <<"m", NL, "n">>, 0, <<>>),
     Rec(1, LevelInfo, <<"m">>, 1, <<String(<<"b">>, <<"y", NL, "z">>)>>)}

\* the levels asked of Enabled
Levels == (LevelDebug - 1)..(LevelError + 1)

\* what the sink's Write returns: nil or an error value
SinkErrors == {"nil", "nope"}

----------------------------------------------------------------------------
(* Operations *)

\* the variables an operation reports through, between operations
NoParts == [header |-> <<>>, middle |-> <<>>, trailer |-> <<>>]

Idle ==
    /\ op = "idle"
    /\ opH = 0
    /\ opRec = NoRec
    /\ opAttrs = <<>>
    /\ writes = <<>>
    /\ sinkRes = "nil"
    /\ err = "nil"
    /\ parts = NoParts
    /\ hookLog = <<>>
    /\ enabledRes = FALSE

\* a span of no seconds: sec whole seconds and nsec nanoseconds, negated when neg
NoSpan == [neg |-> FALSE, sec |-> 0, nsec |-> 0]

\* the duration formatter has not been called
NoDuration ==
    /\ durIn = NoSpan
    /\ durOut = <<>>

Init ==
    \E o \in OptsSet :
        /\ config = o
        /\ handlers = <<NewHandler(o, 1)>>
        /\ hdrHeap = <<[i \in 1..Len(o.Headers) |-> EmptyAttr]>>
        /\ grpHeap = <<>>
        /\ ctxHeap = <<>>
        /\ pool = 0
        /\ Idle
        /\ NoDuration

\* h.Enabled(ctx, l)
Enabled(p, l) ==
    /\ op = "idle"
    /\ enabledRes' = EnabledResult(handlers[p], l)
    /\ op' = "Enabled"
    /\ opH' = p
    /\ opRec' = [NoRec EXCEPT !.Level = l]
    /\ UNCHANGED <<config, handlers, grpHeap, ctxHeap, hdrHeap, opAttrs, writes,
                   sinkRes, err, parts, hookLog, pool, durIn, durOut>>

\* h.Handle(ctx, rec), the sink's Write returning sinkErr
Handle(p, rec, sinkErr) ==
    LET h == handlers[p]
        r == Render(h, rec, Elems(grpHeap, h.groups), Elems(ctxHeap, h.context), hdrHeap)
    IN  /\ op = "idle"
        /\ writes' = HandleWrites(r)
        /\ sinkRes' = sinkErr
        /\ err' = HandleError(sinkErr)
        /\ parts' = [header |-> r.header, middle |-> r.middle, trailer |-> r.trailer]
        /\ hookLog' = r.log
        /\ hdrHeap' = r.heap
        /\ op' = "Handle"
        /\ opH' = p
        /\ opRec' = rec
        /\ pool' = HandlePool(newEncoder(pool), sinkErr)
        /\ UNCHANGED <<config, handlers, grpHeap, ctxHeap, opAttrs, enabledRes, durIn,
                       durOut>>

\* h.WithAttrs(attrs)
WithAttrs(p, attrs) ==
    LET h  == handlers[p]
        eh == extractHeaders(hdrHeap, h, attrs)
        ac == appendAttrs([heap |-> ctxHeap, s |-> h.context, log |-> <<>>], eh.attrs,
                          h.groupPrefix, Elems(grpHeap, h.groups), h.opts.ReplaceAttr)
    IN  /\ op = "idle"
        /\ handlers' = Append(handlers, WithAttrsHandler(h, p, attrs, eh.headers, ac.s))
        /\ hdrHeap' = eh.heap
        /\ ctxHeap' = ac.heap
        /\ opAttrs' = eh.attrs
        /\ hookLog' = ac.log
        /\ op' = "WithAttrs"
        /\ opH' = p
        /\ pool' = newEncoder(pool)
        /\ UNCHANGED <<config, grpHeap, opRec, writes, sinkRes, err, parts, enabledRes,
                       durIn, durOut>>

\* h.WithGroup(name)
WithGroup(p, name) ==
    LET h == handlers[p]
        g == AppendGroup(grpHeap, h.groups, TrimSpace(name))
    IN  /\ op = "idle"
        /\ handlers' = Append(handlers, WithGroupHandler(h, p, name, g.s))
        /\ grpHeap' = g.heap
        /\ op' = "WithGroup"
        /\ opH' = p
        /\ UNCHANGED <<config, ctxHeap, hdrHeap, opRec, opAttrs, writes, sinkRes, err,
                       parts, hookLog, enabledRes, pool, durIn, durOut>>

\* the operation returns to its caller
Return ==
    /\ op # "idle"
    /\ op' = "idle"
    /\ opH' = 0
    /\ opRec' = NoRec
    /\ opAttrs' = <<>>
    /\ writes' = <<>>
    /\ sinkRes' = "nil"
    /\ err' = "nil"
    /\ parts' = NoParts
    /\ hookLog' = <<>>
    /\ enabledRes' = FALSE
    /\ UNCHANGED <<config, handlers, grpHeap, ctxHeap, hdrHeap, pool, durIn, durOut>>

Next ==
    \/ \E p \in 1..Len(handlers), l \in Levels : Enabled(p, l)
    \/ \E p \in 1..Len(handlers), rec \in Records, e \in SinkErrors : Handle(p, rec, e)
    \/ /\ Len(handlers) < MaxHandlers
       /\ \E p \in 1..Len(handlers), attrs \in BoundLists : WithAttrs(p, attrs)
    \/ /\ Len(handlers) < MaxHandlers
       /\ \E p \in 1..Len(handlers), name \in GroupNames : WithGroup(p, name)
    \/ Return

Spec == Init /\ [][Next]_vars

----------------------------------------------------------------------------
(* Deep derivation chains: few inputs, more Handlers *)

DeepOpts == {Opts(FALSE, <<>>, "id", <<>>, 0)}

DeepNames == {<<"g">>, <<"h">>}

DeepBound == {<<String(<<"a">>, <<"x">>)>>}

DeepRecords == {Rec(1, LevelInfo, <<"m">>, 0, <<String(<<"b">>, <<"y">>)>>)}

InitDeep ==
    \E o \in DeepOpts :
        /\ config = o
        /\ handlers = <<NewHandler(o, 1)>>
        /\ hdrHeap = <<[i \in 1..Len(o.Headers) |-> EmptyAttr]>>
        /\ grpHeap = <<>>
        /\ ctxHeap = <<>>
        /\ pool = 0
        /\ Idle
        /\ NoDuration

NextDeep ==
    \/ \E p \in 1..Len(handlers) : Enabled(p, LevelInfo)
    \/ \E p \in 1..Len(handlers), rec \in DeepRecords : Handle(p, rec, "nil")
    \/ /\ Len(handlers) < DeepHandlers
       /\ \E p \in 1..Len(handlers), attrs \in DeepBound : WithAttrs(p, attrs)
    \/ /\ Len(handlers) < DeepHandlers
       /\ \E p \in 1..Len(handlers), name \in DeepNames : WithGroup(p, name)
    \/ Return

SpecDeep == InitDeep /\ [][NextDeep]_vars

----------------------------------------------------------------------------
(* Levels: every level from far below Debug to far above Error is handled *)

LevelOpts == {Opts(FALSE, <<>>, "nil", <<>>, 0), Opts(FALSE, <<LevelWarn>>, "id", <<>>, 0)}

LevelRange == (LevelDebug - LevelSpan)..(LevelError + LevelSpan)

\* the records of TestHandler_Levels: a message, no attributes, no PC
LevelRecords == {Rec(t, l, <<"m">>, 0, <<>>) : t \in {0, 1}, l \in LevelRange}

\* the expectations of TestHandler_Levels
LevelsTable ==
    <<[l |-> LevelDebug - 1, s |-> <<"D", "B", "G", "-", "1">>],
      [l |-> LevelDebug,     s |-> <<"D", "B", "G">>],
      [l |-> LevelDebug + 1, s |-> <<"D", "B", "G", "+", "1">>],
      [l |-> LevelInfo,      s |-> <<"I", "N", "F">>],
      [l |-> LevelInfo + 1,  s |-> <<"I", "N", "F", "+", "1">>],
      [l |-> LevelWarn,      s |-> <<"W", "R", "N">>],
      [l |-> LevelWarn + 1,  s |-> <<"W", "R", "N", "+", "1">>],
      [l |-> LevelError,     s |-> <<"E", "R", "R">>],
      [l |-> LevelError + 1, s |-> <<"E", "R", "R", "+", "1">>]>>

InitLevels ==
    \E o \in LevelOpts :
        /\ config = o
        /\ handlers = <<NewHandler(o, 1)>>
        /\ hdrHeap = <<[i \in 1..Len(o.Headers) |-> EmptyAttr]>>
        /\ grpHeap = <<>>
        /\ ctxHeap = <<>>
        /\ pool = 0
        /\ Idle
        /\ NoDuration

NextLevels ==
    \/ \E p \in 1..Len(handlers), l \in LevelRange : Enabled(p, l)
    \/ \E p \in 1..Len(handlers), rec \in LevelRecords : Handle(p, rec, "nil")
    \/ /\ Len(handlers) < LevelHandlers
       /\ \E p \in 1..Len(handlers), attrs \in DeepBound : WithAttrs(p, attrs)
    \/ /\ Len(handlers) < LevelHandlers
       /\ \E p \in 1..Len(handlers), name \in DeepNames : WithGroup(p, name)
    \/ Return

SpecLevels == InitLevels /\ [][NextLevels]_vars

----------------------------------------------------------------------------
(* Siblings: several Handlers derived from one that has a context bound *)

SiblingOpts == {Opts(FALSE, <<>>, "nil", <<<<"l">>>>, 0)}

\* attribute lists of different lengths, one with a header key
SiblingBound ==
    {<<String(<<"a">>, <<"x">>)>>,
     <<String(<<"c">>, <<"z", "z">>), String(<<"l">>, <<"v">>)>>,
     <<String(<<"e">>, <<"y">>), String(<<"a">>, <<"w">>)>>}

SiblingNames == {<<"g">>}

InitSiblings ==
    \E o \in SiblingOpts :
        /\ config = o
        /\ handlers = <<NewHandler(o, 1)>>
        /\ hdrHeap = <<[i \in 1..Len(o.Headers) |-> EmptyAttr]>>
        /\ grpHeap = <<>>
        /\ ctxHeap = <<>>
        /\ pool = 0
        /\ Idle
        /\ NoDuration

NextSiblings ==
    \/ \E p \in 1..Len(handlers) : Enabled(p, LevelInfo)
    \/ \E p \in 1..Len(handlers), rec \in DeepRecords : Handle(p, rec, "nil")
    \/ /\ Len(handlers) < SiblingHandlers
       /\ \E p \in 1..Len(handlers), attrs \in SiblingBound : WithAttrs(p, attrs)
    \/ /\ Len(handlers) < SiblingHandlers
       /\ \E p \in 1..Len(handlers), name \in SiblingNames : WithGroup(p, name)
    \/ Return

SpecSiblings == InitSiblings /\ [][NextSiblings]_vars

----------------------------------------------------------------------------
(* Durations: the formatter applied to spans of every shape *)

Span(neg, sec, nsec) == [neg |-> neg, sec |-> sec, nsec |-> nsec]

\* whole seconds: none, below and at a minute, an hour, a day, and beyond
SpanSeconds ==
    {0, 1, 4, 59, 60, 61, 184, 3599, 3600, 3661, 7199, 7200, 7384, 86399, 86400,
     90061, 172800, 176401}

\* nanoseconds below a second: none, and fractions ending at every unit
SpanNanos == {0, 7, 100, 6007, 120000, 5006007, 500000000, 999999993}

\* the spans formatted: zero has no sign
Spans ==
    {Span(neg, sec, nsec) : neg \in BOOLEAN, sec \in SpanSeconds, nsec \in SpanNanos}
        \ {Span(TRUE, 0, 0)}

\* the spans of TestDuration and the texts it and the specification give them
DurationTable ==
    <<[d |-> Span(FALSE, 7384, 5006007),
       s |-> <<"2", "h", "3", "m", "4", ".", "0", "0", "5", "0", "0", "6", "0", "0", "7", "s">>],
      [d |-> Span(FALSE, 0, 0), s |-> <<"0", "s">>],
      [d |-> Span(TRUE, 7199, 999999993),
       s |-> <<"-", "1", "h", "5", "9", "m", "5", "9", ".",
               "9", "9", "9", "9", "9", "9", "9", "9", "3", "s">>],
      [d |-> Span(FALSE, 176401, 0), s |-> <<"2", "d", "1", "h", "0", "m", "1", "s">>]>>

InitDuration ==
    \E o \in DeepOpts, d \in Spans :
        /\ config = o
        /\ handlers = <<NewHandler(o, 1)>>
        /\ hdrHeap = <<[i \in 1..Len(o.Headers) |-> EmptyAttr]>>
        /\ grpHeap = <<>>
        /\ ctxHeap = <<>>
        /\ pool = 0
        /\ Idle
        /\ durIn = d
        /\ durOut = <<>>

\* appendDuration(b[:0], durIn)
AppendDuration ==
    /\ durOut = <<>>
    /\ durOut' = appendDuration(durIn)
    /\ UNCHANGED <<config, handlers, grpHeap, ctxHeap, hdrHeap, op, opH, opRec, opAttrs,
                   writes, sinkRes, err, parts, hookLog, enabledRes, pool, durIn>>

NextDuration == AppendDuration

SpecDuration == InitDuration /\ [][NextDuration]_vars

----------------------------------------------------------------------------
(* What the claims speak of *)

RECURSIVE DerivedFrom(_, _)
\* Handler d is h or was derived from h by WithAttrs and WithGroup calls
DerivedFrom(d, h) ==
    d > 0 /\ (d = h \/ DerivedFrom(handlers[d].parent, h))

\* what Handle writes for rec on Handler h over the given heaps
OutputIn(h, rec, gh, ch, hh) ==
    HandleWrites(Render(h, rec, Elems(gh, h.groups), Elems(ch, h.context), hh))

\* the fields of Handler h as Handle reads them over the given heaps
ViewIn(h, gh, ch, hh) ==
    [opts        |-> h.opts,
     groupPrefix |-> h.groupPrefix,
     groups      |-> Elems(gh, h.groups),
     context     |-> Elems(ch, h.context),
     headers     |-> Elems(hh, h.headers)]

\* the fields of handlers[p] in the current state
HandlerView(p) ==
    ViewIn(handlers[p], grpHeap, ctxHeap, hdrHeap)

RECURSIVE GroupPath(_)
\* the names given to the WithGroup calls of a chain, as WithGroup keeps them
GroupPath(chain) ==
    IF chain = <<>> THEN <<>>
    ELSE IF Head(chain).op = "WithGroup"
         THEN <<TrimSpace(Head(chain).name)>> \o GroupPath(Tail(chain))
         ELSE GroupPath(Tail(chain))

RECURSIVE BoundAttrs(_)
\* the attributes given to the WithAttrs calls of a chain, in order
BoundAttrs(chain) ==
    IF chain = <<>> THEN <<>>
    ELSE IF Head(chain).op = "WithAttrs"
         THEN Head(chain).attrs \o BoundAttrs(Tail(chain))
         ELSE BoundAttrs(Tail(chain))

\* the last attribute of as with the given key, the zero Attr when there is none
LastWithKey(as, key) ==
    IF \E i \in 1..Len(as) : as[i].Key = key
    THEN as[CHOOSE i \in 1..Len(as) :
                as[i].Key = key /\ \A j \in (i + 1)..Len(as) : as[j].Key # key]
    ELSE EmptyAttr

\* t occurs in s as a run of consecutive bytes
Contains(s, t) ==
    \E i \in 0..(Len(s) - Len(t)) : SubSeq(s, i + 1, i + Len(t)) = t

----------------------------------------------------------------------------
(* Claims *)

\* C1: WithAttrs and WithGroup never mutate the Handler they are called on: a
\* call on h, or on a Handler derived from h, leaves what h.Handle writes for
\* every record, and h's context, group path and header slots, as they were.
DerivationKeepsReceiver ==
    [][op' \in {"WithAttrs", "WithGroup"} =>
        \A q \in 1..Len(handlers) :
            DerivedFrom(opH', q) =>
                /\ ViewIn(handlers'[q], grpHeap', ctxHeap', hdrHeap') = HandlerView(q)
                /\ \A rec \in Records :
                        OutputIn(handlers'[q], rec, grpHeap', ctxHeap', hdrHeap')
                            = OutputIn(handlers[q], rec, grpHeap, ctxHeap, hdrHeap)]_vars

\* C1's case: WithAttrs was called on a Handler that has a header slot and a
\* context bound, and gave the new Handler another slot value and more context
DerivationChangedChild ==
    /\ op = "WithAttrs"
    /\ LET parent == HandlerView(opH)
           child  == HandlerView(Len(handlers))
       IN  /\ parent.context # <<>>
           /\ \E i \in 1..Len(parent.headers) :
                /\ parent.headers[i] # EmptyAttr
                /\ child.headers[i] # parent.headers[i]
           /\ child.context # parent.context

\* the keys of the record's own attributes that are not groups
TopLevelKeys(rec) ==
    {rec.Attrs[i].Key : i \in {j \in 1..Len(rec.Attrs) : rec.Attrs[j].Kind # "group"}}

\* t starts with p
IsPrefix(p, t) ==
    Len(p) <= Len(t) /\ SubSeq(t, 1, Len(p)) = p

\* C2: during Handle on a Handler reached by WithGroup(g1)...WithGroup(gn), the
\* rewrite hook is given the group path [g1..gn] for every attribute of the
\* record and the empty path for the builtin fields time, level, message, source.
HookGroupPath ==
    op = "Handle" =>
        \A i \in 1..Len(hookLog) :
            LET e    == hookLog[i]
                path == GroupPath(handlers[opH].chain)
            IN  IF e.key \in BuiltinKeys THEN e.groups = <<>>
                ELSE /\ IsPrefix(path, e.groups)
                     /\ e.key \in TopLevelKeys(opRec) => e.groups = path

\* C3: the primary line of Handle's output, header and middle, holds no line
\* break other than its last byte.
PrimaryLineUnbroken ==
    op = "Handle" =>
        LET line == parts.header \o parts.middle
        IN  \A i \in 1..(Len(line) - 1) : line[i] # NL

\* C4: when an attribute of the record was relocated, a newline separates header
\* and middle from the first relocated token.
TrailerAfterNewline ==
    (op = "Handle" /\ parts.trailer # <<>>) =>
        LET line == parts.header \o parts.middle
        IN  line # <<>> /\ line[Len(line)] = NL

\* C5: Handle issues exactly one Write to the sink, of header + middle + trailer.
SingleWrite ==
    op = "Handle" =>
        /\ Len(writes) = 1
        /\ writes[1] = parts.header \o parts.middle \o parts.trailer

\* C5's case: a Handle whose three buffers all held text
SingleWriteOfThree ==
    /\ op = "Handle"
    /\ parts.header # <<>>
    /\ parts.trailer # <<>>
    /\ Len(writes) = 1

\* C6: Handle returns an error exactly when the sink's Write returned one, and
\* returns that error.
ErrorIsSinkError ==
    op = "Handle" => err = sinkRes

\* C6's case: a Handle on a derived Handler whose Write failed
WriteFailed ==
    /\ op = "Handle"
    /\ sinkRes = "nope"
    /\ opH > 1
    /\ opRec.Attrs # <<>>

\* the threshold NewHandler was configured with, Info when none was
Threshold ==
    IF config.Level = <<>> THEN LevelInfo ELSE config.Level[1]

\* C7: Enabled(l) is true exactly when l is at or above the configured threshold,
\* Info when none is configured, on the base Handler and on every derived one.
EnabledIffAtThreshold ==
    op = "Enabled" => (enabledRes <=> opRec.Level >= Threshold)

\* C7's case: Enabled on a derived Handler at exactly a configured threshold
EnabledAtThreshold ==
    /\ op = "Enabled"
    /\ handlers[opH].parent # 0
    /\ config.Level # <<>>
    /\ opRec.Level = config.Level[1]
    /\ enabledRes

\* the header slot Handle renders at index i: the record's attribute with that
\* header key when it carries one, the slot stored in the Handler otherwise
RenderedSlot(h, rec, stored, i) ==
    IF \E j \in 1..Len(rec.Attrs) : IndexFunc(h.opts.Headers, rec.Attrs[j].Key) = i
    THEN LastWithKey(rec.Attrs, h.opts.Headers[i])
    ELSE stored[i]

\* C8: a record attribute with a configured header key fills that header slot in
\* this render, over the value bound on the Handler, and no Handler's stored
\* header slots change.
RecordHeaderOverrides ==
    [][op' = "Handle" =>
        LET h      == handlers[opH']
            stored == Elems(hdrHeap, h.headers)
        IN  /\ parts'.header =
                    writeTimestamp(opRec'.Time, "nil").text
                        \o headerText(h, [i \in 1..Len(stored) |->
                                            RenderedSlot(h, opRec', stored, i)])
            /\ \A q \in 1..Len(handlers) :
                    Elems(hdrHeap', handlers[q].headers)
                        = Elems(hdrHeap, handlers[q].headers)]_vars

\* C8's case: Handle of a record that carries a header key whose slot the
\* Handler had bound to another value
RecordOverrodeBoundHeader ==
    /\ op = "Handle"
    /\ LET h      == handlers[opH]
           stored == Elems(hdrHeap, h.headers)
       IN  \E i \in 1..Len(stored), j \in 1..Len(opRec.Attrs) :
                /\ opRec.Attrs[j].Key = h.opts.Headers[i]
                /\ stored[i] # EmptyAttr
                /\ stored[i] # opRec.Attrs[j]

\* C9: in every Handler, the slot of each configured header key holds the last
\* attribute bound with that key along its chain of derivations, the zero Attr
\* when none was, and the bound context renders no extracted attribute.
HeaderSlotsLatest ==
    \A q \in 1..Len(handlers) :
        LET h     == handlers[q]
            slots == Elems(hdrHeap, h.headers)
        IN  /\ Len(slots) = Len(config.Headers)
            /\ \A i \in 1..Len(slots) :
                /\ slots[i] = LastWithKey(BoundAttrs(h.chain), config.Headers[i])
                /\ ~Contains(Elems(ctxHeap, h.context), config.Headers[i] \o <<"=">>)

\* C9's case: a Handler two WithAttrs calls away from the base, both of which
\* bound the same header key, to different values
HeaderBoundTwice ==
    \E q \in 1..Len(handlers) :
        LET c == handlers[q].chain
        IN  /\ Len(c) = 2
            /\ c[1].op = "WithAttrs" /\ c[2].op = "WithAttrs"
            /\ \E k \in {config.Headers[i] : i \in 1..Len(config.Headers)} :
                /\ LastWithKey(c[1].attrs, k) # EmptyAttr
                /\ LastWithKey(c[2].attrs, k) # EmptyAttr
                /\ LastWithKey(c[1].attrs, k) # LastWithKey(c[2].attrs, k)

\* the text the source attribute renders as
SourceText == SourceAttr.Str

\* C10: with AddSource set and a non-zero PC the source field stands between the
\* severity abbreviation and the message, `LVL file:line > message`; otherwise
\* no source field is rendered.
SourceBeforeMessage ==
    op = "Handle" =>
        IF handlers[opH].opts.AddSource /\ opRec.PC > 0
        THEN IsPrefix(LevelText(opRec.Level) \o <<" ">> \o SourceText \o <<" ", ">", " ">>
                        \o opRec.Message, parts.middle)
        ELSE ~Contains(writes[1], SourceText)

RECURSIVE DotJoin(_)
\* the names of a path joined by dots
DotJoin(path) ==
    IF path = <<>> THEN <<>>
    ELSE IF Len(path) = 1 THEN path[1]
    ELSE path[1] \o <<".">> \o DotJoin(Tail(path))

RECURSIVE Flatten(_, _)
\* the depth-first, in-order flattening of an attribute list under a path of
\* group names: one ` path.key=value` token per leaf; a group with an empty key
\* adds nothing to the path, an attribute with empty key and no value no token
Flatten(as, path) ==
    IF as = <<>> THEN <<>>
    ELSE LET a == Head(as)
         IN  (IF a.Kind = "group"
              THEN Flatten(a.Group, IF a.Key = <<>> THEN path ELSE Append(path, a.Key))
              ELSE IF a.Key = <<>> /\ a.Kind = "empty" THEN <<>>
              ELSE << <<" ">> \o DotJoin(Append(path, a.Key)) \o <<"=">> \o ValueText(a) >>)
             \o Flatten(Tail(as), path)

\* the attribute is rendered inline: its key is no configured header key
IsInline(a) ==
    IndexFunc(config.Headers, a.Key) = 0

RECURSIVE ExpectedContext(_, _)
\* the bound context of a chain of derivations: the attributes of each WithAttrs
\* call under the group path entered before that call
ExpectedContext(chain, path) ==
    IF chain = <<>> THEN <<>>
    ELSE IF Head(chain).op = "WithGroup"
         THEN ExpectedContext(Tail(chain), Append(path, TrimSpace(Head(chain).name)))
         ELSE Concat(Flatten(SelectSeq(Head(chain).attrs, IsInline), path))
                \o ExpectedContext(Tail(chain), path)

\* C12: WithGroup(name) gives a Handler whose group prefix is the parent's with
\* the name appended, dot-joined; attributes bound before the call keep the
\* prefix they were rendered with, and those bound later and the record's get
\* the new prefix, the bound ones before the record's.
GroupPrefixDeferred ==
    /\ \A q \in 1..Len(handlers) :
            LET h == handlers[q]
            IN  /\ h.groupPrefix = DotJoin(GroupPath(h.chain))
                /\ Elems(ctxHeap, h.context) = ExpectedContext(h.chain, <<>>)
    /\ (op = "Handle" /\ parts.trailer = <<>>) =>
            LET h == handlers[opH]
            IN  parts.middle =
                    LevelText(opRec.Level) \o <<" ">> \o opRec.Message
                        \o ExpectedContext(h.chain, <<>>)
                        \o Concat(Flatten(SelectSeq(recordAttrs(h, opRec), IsInline),
                                          GroupPath(h.chain)))
                        \o <<NL>>

\* C12's case: Handle of a record with an attribute on a Handler reached by
\* WithGroup, WithAttrs, WithGroup
HandledUnderTwoGroups ==
    /\ op = "Handle"
    /\ opRec.Attrs # <<>>
    /\ LET c == handlers[opH].chain
       IN  /\ Len(c) = 3
           /\ c[1].op = "WithGroup" /\ c[2].op = "WithAttrs" /\ c[3].op = "WithGroup"
           /\ c[1].name # c[3].name

\* the text has a line break
HasBreak(t) ==
    HasByte(t, NL)

\* the text has no line break
NoBreak(t) ==
    ~HasByte(t, NL)

\* C13: the key=value tokens Handle emits for the record's attributes are the
\* depth-first, in-order flattening of the attribute trees, each leaf key
\* qualified by the non-empty keys of its enclosing groups under the Handler's
\* group path; empty groups and attributes with empty key and no value emit
\* nothing.  (The tokens of a tree that holds a line break are in the trailer,
\* those of the other trees in middle.)
TokensAreFlattening ==
    op = "Handle" =>
        LET h    == handlers[opH]
            as   == SelectSeq(recordAttrs(h, opRec), IsInline)
            toks == [i \in 1..Len(as) |-> Concat(Flatten(<<as[i]>>, GroupPath(h.chain)))]
            head == LevelText(opRec.Level) \o <<" ">> \o opRec.Message
                        \o Elems(ctxHeap, h.context)
            late == Concat(SelectSeq(toks, HasBreak))
        IN  /\ parts.middle = head \o Concat(SelectSeq(toks, NoBreak))
                                \o (IF late = <<>> THEN <<NL>> ELSE <<>>)
            /\ parts.trailer = late \o (IF late = <<>> THEN <<>> ELSE <<NL>>)

\* C13's case: Handle, on a Handler in a group, of a record with nested groups,
\* an inlined group, empty groups and an empty attribute
NestedGroupsHandled ==
    /\ op = "Handle"
    /\ handlers[opH].groupPrefix # <<>>
    /\ \E i, j, k \in 1..Len(opRec.Attrs) :
            /\ opRec.Attrs[i].Kind = "group"
            /\ \E m \in 1..Len(opRec.Attrs[i].Group) :
                    /\ opRec.Attrs[i].Group[m].Kind = "group"
                    /\ opRec.Attrs[i].Group[m].Key = <<>>
                    /\ opRec.Attrs[i].Group[m].Group # <<>>
            /\ opRec.Attrs[j] = EmptyAttr
            /\ opRec.Attrs[k].Kind = "group" /\ opRec.Attrs[k].Group = <<>>
    /\ Contains(parts.middle, <<"G", ".", "e", "=", "y">>)

\* the named levels
NamedLevels == {LevelDebug, LevelInfo, LevelWarn, LevelError}

\* the 3-letter code TestHandler_Levels expects for a named level
CodeOf(b) ==
    LevelsTable[CHOOSE i \in 1..Len(LevelsTable) : LevelsTable[i].l = b].s

\* the severity field of the claim: the code of the highest named level at or
\* below l, of Debug when there is none, and the signed offset when not zero
SeverityField(l) ==
    LET below == {b \in NamedLevels : b <= l}
        band  == IF below = {} THEN LevelDebug
                 ELSE CHOOSE b \in below : \A c \in below : c <= b
    IN  CodeOf(band)
            \o (IF l > band THEN <<"+">> \o Itoa(l - band)
                ELSE IF l < band THEN <<"-">> \o Itoa(band - l)
                ELSE <<>>)

\* C14: for every level the severity field Handle writes is the 3-letter code of
\* the highest named band at or below the level, DBG below Debug, followed by
\* the signed offset from that band when it is not zero; so for the levels of
\* TestHandler_Levels it is what the test expects.
SeverityIsBandAndOffset ==
    op = "Handle" =>
        /\ IsPrefix(SeverityField(opRec.Level) \o <<" ">> \o opRec.Message, parts.middle)
        /\ \A i \in 1..Len(LevelsTable) :
                LevelsTable[i].l = opRec.Level =>
                    IsPrefix(LevelsTable[i].s \o <<" ">>, parts.middle)

\* C14's case: a level between two bands, three above the lower one, was handled,
\* or one more than nine from its band
SeverityWithOffsetHandled ==
    /\ op = "Handle"
    /\ \/ opRec.Level = LevelWarn - 1
       \/ opRec.Level = LevelDebug - 11
       \/ opRec.Level = LevelError + 10
    /\ \E k \in 1..Len(parts.middle) : parts.middle[k] \in {"+", "-"}

\* C16: every Handle releases the encoder it acquired back to the pool before it
\* returns, whether the sink's Write succeeded or failed: once Handle has
\* returned, the pool holds its encoder again.
EncoderReleased ==
    op = "Handle" => pool > 0

RECURSIVE fmtFrac(_, _, _, _)
\* the reference's fraction: the last prec digits of v from the right, dropping
\* the zeros at the end, and a point if any digit was written
fmtFrac(v, prec, print, acc) ==
    IF prec = 0 THEN (IF print THEN <<".">> \o acc ELSE acc)
    ELSE LET digit == v % 10
             p     == print \/ digit # 0
         IN  fmtFrac(v \div 10, prec - 1, p, IF p THEN <<Digits[digit + 1]>> \o acc ELSE acc)

RECURSIVE fmtInt(_)
\* the reference's integer, written from its last digit
fmtInt(v) ==
    IF v = 0 THEN <<"0">>
    ELSE IF v < 10 THEN <<Digits[v + 1]>>
    ELSE fmtInt(v \div 10) \o <<Digits[(v % 10) + 1]>>

\* the reference rendering of |d| below 24 hours: the conventional String of a
\* duration, built from the seconds up
ReferenceAbs(d) ==
    IF d.sec = 0 /\ d.nsec = 0 THEN <<"0", "s">>
    ELSE IF d.sec = 0
    THEN IF d.nsec < 1000 THEN fmtInt(d.nsec) \o <<"n", "s">>
         ELSE IF d.nsec < 1000000
         THEN fmtInt(d.nsec \div 1000) \o fmtFrac(d.nsec, 3, FALSE, <<>>) \o <<Micro, "s">>
         ELSE fmtInt(d.nsec \div 1000000) \o fmtFrac(d.nsec, 6, FALSE, <<>>) \o <<"m", "s">>
    ELSE LET secs == fmtInt(d.sec % 60) \o fmtFrac(d.nsec, 9, FALSE, <<>>) \o <<"s">>
             u    == d.sec \div 60
             mins == IF u > 0 THEN fmtInt(u % 60) \o <<"m">> \o secs ELSE secs
             v    == u \div 60
         IN  IF v > 0 THEN fmtInt(v) \o <<"h">> \o mins ELSE mins

\* the reference rendering of a span: below 24 hours the conventional one, from
\* 24 hours on the day count and the rendering of the rest, in hours, minutes
\* and seconds
Reference(d) ==
    (IF d.neg /\ (d.sec # 0 \/ d.nsec # 0) THEN <<"-">> ELSE <<>>)
        \o (IF d.sec < 86400 THEN ReferenceAbs(d)
            ELSE LET rest == [d EXCEPT !.sec = d.sec % 86400]
                 IN  fmtInt(d.sec \div 86400) \o <<"d">>
                        \o fmtInt(rest.sec \div 3600) \o <<"h">>
                        \o fmtInt((rest.sec % 3600) \div 60) \o <<"m">>
                        \o fmtInt(rest.sec % 60) \o fmtFrac(d.nsec, 9, FALSE, <<>>) \o <<"s">>)

\* C15: the duration formatter's output is the reference rendering: below 24
\* hours the conventional compact string (0s for zero, the units from the largest
\* non-zero one down to seconds, the fraction without trailing zeros, `-` before
\* the rendering of |d| for a negative span), from 24 hours on with a day count
\* before hours that stay below 24; so 49h1s is 2d1h0m1s.
DurationIsReference ==
    durOut # <<>> =>
        /\ durOut = Reference(durIn)
        /\ \A i \in 1..Len(DurationTable) :
                DurationTable[i].d = durIn => durOut = DurationTable[i].s

\* C15's case: a negative span of more than a day with a fraction was formatted
LongNegativeSpanFormatted ==
    /\ durOut # <<>>
    /\ durIn.neg
    /\ durIn.sec > 86400
    /\ durIn.nsec = 5006007

\* the text a derivation step adds to the context of the Handler it is made on
OwnContext(parent, step) ==
    IF step.op = "WithAttrs"
    THEN Concat(Flatten(SelectSeq(step.attrs, IsInline), GroupPath(parent.chain)))
    ELSE <<>>

\* C17: sibling derivations are independent: whatever WithAttrs and WithGroup
\* calls are made on a Handler and on the Handlers derived from it, and in
\* whatever order, the context of each Handler is its parent's context followed
\* by exactly its own rendered attributes; no context buffer has spare capacity,
\* and no call writes into a context array that exists already.
SiblingContextsIndependent ==
    /\ [](\A q \in 1..Len(handlers) :
            LET h == handlers[q]
            IN  /\ h.context.cap = h.context.len
                /\ h.parent # 0 =>
                        Elems(ctxHeap, h.context) =
                            Elems(ctxHeap, handlers[h.parent].context)
                                \o OwnContext(handlers[h.parent], h.chain[Len(h.chain)]))
    /\ [][\A i \in 1..Len(ctxHeap) : ctxHeap'[i] = ctxHeap[i]]_vars

\* C17's case: two Handlers made by WithAttrs with different attributes on the
\* same Handler, which has a context bound, to contexts of different lengths
SiblingsOfBoundParent ==
    \E q, r \in 1..Len(handlers) :
        LET a == handlers[q]
            b == handlers[r]
        IN  /\ q < r
            /\ a.parent = b.parent
            /\ a.parent # 0
            /\ Elems(ctxHeap, handlers[a.parent].context) # <<>>
            /\ a.chain[Len(a.chain)].op = "WithAttrs"
            /\ b.chain[Len(b.chain)].op = "WithAttrs"
            /\ a.context.len < b.context.len
            /\ a.context.arr # b.context.arr

\* C18: WithAttrs leaves the caller's attribute slice as it was given, so that a
\* second WithAttrs on the same Handler with the same slice gives a Handler with
\* the header slots and the bound context of the first.
WithAttrsKeepsArgument ==
    op = "WithAttrs" =>
        LET h      == handlers[opH]
            first  == handlers[Len(handlers)]
            given  == first.chain[Len(first.chain)].attrs
            eh     == extractHeaders(hdrHeap, h, opAttrs)
            ac     == appendAttrs([heap |-> ctxHeap, s |-> h.context, log |-> <<>>],
                                  eh.attrs, h.groupPrefix, Elems(grpHeap, h.groups),
                                  h.opts.ReplaceAttr)
        IN  /\ opAttrs = given
            /\ Elems(eh.heap, eh.headers) = Elems(hdrHeap, first.headers)
            /\ Elems(ac.heap, ac.s) = Elems(ctxHeap, first.context)

====
